---- MODULE Spec2Model ----
(***************************************************************************)
(* Model of src/src/utils.js of uniwebcms/report-sdk: the styled-string    *)
(* parser (parseStyledString), the markup-tree serializer (htmlToDocx) and  *)
(* the block-content normalizer (parseBlockContent).                       *)
(*                                                                         *)
(* A JavaScript string is a sequence of one-character strings, so that the *)
(* regular expressions of the source are computed character by character.  *)
(* JavaScript indices are 0-based, the indices below are 1-based.          *)
(***************************************************************************)
EXTENDS Integers, Sequences, FiniteSets, TLC

VARIABLES pc, input, arg, console, runs, dom, out, block, parsed, calls

vars == <<pc, input, arg, console, runs, dom, out, block, parsed, calls>>

(***************************************************************************)
(* Bounds.                                                                 *)
(***************************************************************************)
MaxTokens == 5
MaxNodes == 4
MaxAttrs == 2
MaxParaTokens == 3
MaxParas == 2
MaxCalls == 2
MaxElems == 2
MaxNumber == 12
MaxTagNodes == 3
MaxDataPieces == 3
MaxLeadPieces == 2
MaxSourcePieces == 3
MaxAssetPieces == 1

(***************************************************************************)
(* Strings.                                                                *)
(***************************************************************************)
\* The characters of the pieces of text the inputs are assembled from.
TokChars(t) ==
    CASE t = "a"        -> <<"a">>
      [] t = "b"        -> <<"b">>
      [] t = "c"        -> <<"c">>
      [] t = "x"        -> <<"x">>
      [] t = "<b>"      -> <<"<", "b", ">">>
      [] t = "</b>"     -> <<"<", "/", "b", ">">>
      [] t = "<i>"      -> <<"<", "i", ">">>
      [] t = "</i>"     -> <<"<", "/", "i", ">">>
      [] t = "<u>"      -> <<"<", "u", ">">>
      [] t = "</u>"     -> <<"<", "/", "u", ">">>
      [] t = "<em>"     -> <<"<", "e", "m", ">">>
      [] t = "</em>"    -> <<"<", "/", "e", "m", ">">>
      [] t = "<strong>" -> <<"<", "s", "t", "r", "o", "n", "g", ">">>
      [] t = "</strong>" -> <<"<", "/", "s", "t", "r", "o", "n", "g", ">">>
      [] t = "<span>"   -> <<"<", "s", "p", "a", "n", ">">>
      [] t = "</span>"  -> <<"<", "/", "s", "p", "a", "n", ">">>
      [] t = "<b k>"    -> <<"<", "b", " ", "k", ">">>
      [] t = "<br>"     -> <<"<", "b", "r", ">">>
      [] t = "<u-org>"  -> <<"<", "u", "-", "o", "r", "g", ">">>
      [] t = "</u-org>" -> <<"<", "/", "u", "-", "o", "r", "g", ">">>
      [] t = "&amp;"    -> <<"&", "a", "m", "p", ";">>
      [] t = "&lt;b&gt;" -> <<"&", "l", "t", ";", "b", "&", "g", "t", ";">>
      [] t = "&lt;/b&gt;" -> <<"&", "l", "t", ";", "/", "b", "&", "g", "t", ";">>

RECURSIVE Flatten(_)
Flatten(toks) ==
    IF toks = <<>> THEN <<>> ELSE TokChars(Head(toks)) \o Flatten(Tail(toks))

\* \w of a JavaScript regular expression: [A-Za-z0-9_].
WordChars ==
    {"a", "b", "c", "d", "e", "f", "g", "h", "i", "j", "k", "l", "m",
     "n", "o", "p", "q", "r", "s", "t", "u", "v", "w", "x", "y", "z",
     "A", "B", "C", "D", "E", "F", "G", "H", "I", "J", "K", "L", "M",
     "N", "O", "P", "Q", "R", "S", "T", "U", "V", "W", "X", "Y", "Z",
     "0", "1", "2", "3", "4", "5", "6", "7", "8", "9", "_"}

\* string.slice(from - 1, to) for 1 <= from, to <= Len(s): s[from..to].
Slice(s, from, to) == IF from > to THEN <<>> ELSE SubSeq(s, from, to)

\* s has the characters of t at positions i .. i + Len(t) - 1.
HasAt(s, i, t) ==
    /\ i >= 1
    /\ i + Len(t) - 1 <= Len(s)
    /\ \A k \in 1..Len(t) : s[i + k - 1] = t[k]

\* The least element of a non-empty set of integers.
Least(S) == CHOOSE m \in S : \A n \in S : m <= n

(***************************************************************************)
(* parseStyledString.                                                      *)
(***************************************************************************)
\* The position after the run of \w characters that starts at i.
WordEnd(s, i) == Least({j \in i..(Len(s) + 1) : j = Len(s) + 1 \/ s[j] \notin WordChars})

\* "<(\w+)>" at position i: the position of the closing ">" of the opening
\* tag, or 0 when there is no opening tag at i.
OpenTagEnd(s, i) ==
    IF i <= Len(s) /\ s[i] = "<"
    THEN LET j == WordEnd(s, i + 1)
         IN  IF j > i + 1 /\ j <= Len(s) /\ s[j] = ">" THEN j ELSE 0
    ELSE 0

\* "</" tag ">"
CloseTag(tag) == <<"<", "/">> \o tag \o <<">">>

\* /<(\w+)>(.*?)<\/\1>/s tried at position i: the empty set when it fails,
\* else the set of the positions where the lazy (.*?) can stop.
CloseStarts(s, i) ==
    LET j == OpenTagEnd(s, i)
    IN  IF j = 0 THEN {}
        ELSE {k \in (j + 1)..Len(s) : HasAt(s, k, CloseTag(Slice(s, i + 1, j - 1)))}

\* The match of the regular expression at position i (which must match).
MatchAt(s, i) ==
    LET j   == OpenTagEnd(s, i)
        tag == Slice(s, i + 1, j - 1)
        k   == Least(CloseStarts(s, i))
    IN  [offset    |-> i,
         tag       |-> tag,
         innerText |-> Slice(s, j + 1, k - 1),
         end       |-> k + Len(tag) + 3]

\* The positions at or after from where the regular expression matches.
MatchStarts(s, from) == {i \in from..Len(s) : CloseStarts(s, i) # {}}

\* createTextPart: the style keys are kept as a set, since each key has one
\* possible value (bold: true, italics: true, underline: {}).
createTextPart(content, styles) ==
    [type |-> "text", content |-> content, styles |-> styles]

\* newStyles that forgets the styles of the enclosing tags.
newStylesResetting(tag, styles) ==
    (IF tag = <<"s", "t", "r", "o", "n", "g">> \/ tag = <<"b">> THEN {"bold"} ELSE {})
      \cup (IF tag = <<"e", "m">> \/ tag = <<"i">> THEN {"italics"} ELSE {})
      \cup (IF tag = <<"u">> THEN {"underline"} ELSE {})

\* The styles of the callback of string.replace.
newStyles(tag, styles) ==
    styles
      \cup (IF tag = <<"s", "t", "r", "o", "n", "g">> \/ tag = <<"b">> THEN {"bold"} ELSE {})
      \cup (IF tag = <<"e", "m">> \/ tag = <<"i">> THEN {"italics"} ELSE {})
      \cup (IF tag = <<"u">> THEN {"underline"} ELSE {})

RECURSIVE processSegments(_, _), replaceFrom(_, _, _)

\* replaceFrom that emits the text before a match after the runs of the match.
replaceFromInnerFirst(string, lastIndex, styles) ==
    IF MatchStarts(string, lastIndex) = {}
    THEN LET remainingText == Slice(string, lastIndex, Len(string))
         IN  IF remainingText # <<>>
             THEN <<createTextPart(remainingText, styles)>> ELSE <<>>
    ELSE LET m         == MatchAt(string, Least(MatchStarts(string, lastIndex)))
             plainText == Slice(string, lastIndex, m.offset - 1)
         IN  processSegments(m.innerText, newStyles(m.tag, styles))
             \o (IF plainText # <<>>
                 THEN <<createTextPart(plainText, styles)>> ELSE <<>>)
             \o replaceFrom(string, m.end, styles)

\* string.replace(regexp, callback) from position lastIndex on, followed by
\* the handling of the text after the last match.
replaceFrom(string, lastIndex, styles) ==
    IF MatchStarts(string, lastIndex) = {}
    THEN LET remainingText == Slice(string, lastIndex, Len(string))
         IN  IF remainingText # <<>>
             THEN <<createTextPart(remainingText, styles)>> ELSE <<>>
    ELSE LET m         == MatchAt(string, Least(MatchStarts(string, lastIndex)))
             plainText == Slice(string, lastIndex, m.offset - 1)
         IN  (IF plainText # <<>>
              THEN <<createTextPart(plainText, styles)>> ELSE <<>>)
             \o processSegments(m.innerText, newStyles(m.tag, styles))
             \o replaceFrom(string, m.end, styles)

\* processSegments without the early return on the empty string.
processSegmentsNoEmptyRun(string, styles) == replaceFrom(string, 1, styles)

processSegments(string, styles) ==
    IF string = <<>> THEN <<createTextPart(<<>>, styles)>>
    ELSE replaceFrom(string, 1, styles)

\* htmlString.replace(/<[^>]*>/g, ''): from position i on.
RECURSIVE removeTags(_, _)
removeTags(s, i) ==
    IF i > Len(s) THEN <<>>
    ELSE IF s[i] = "<" /\ \E k \in (i + 1)..Len(s) : s[k] = ">"
         THEN removeTags(s, Least({k \in (i + 1)..Len(s) : s[k] = ">"}) + 1)
         ELSE <<s[i]>> \o removeTags(s, i + 1)

\* new DOMParser().parseFromString(plain, 'text/html').body.textContent on
\* text without "<": the character references are decoded.
RECURSIVE decodeEntities(_, _)
decodeEntities(s, i) ==
    IF i > Len(s) THEN <<>>
    ELSE IF HasAt(s, i, <<"&", "l", "t", ";">>) THEN <<"<">> \o decodeEntities(s, i + 4)
    ELSE IF HasAt(s, i, <<"&", "g", "t", ";">>) THEN <<">">> \o decodeEntities(s, i + 4)
    ELSE IF HasAt(s, i, <<"&", "a", "m", "p", ";">>) THEN <<"&">> \o decodeEntities(s, i + 5)
    ELSE <<s[i]>> \o decodeEntities(s, i + 1)

stripTags(htmlString) ==
    IF htmlString = <<>> THEN <<>>
    ELSE decodeEntities(removeTags(htmlString, 1), 1)

\* /<u-org>[\s\S]*?<\/u-org>/g.test(inputString)
HasUOrg(s) ==
    \E i \in 1..Len(s) :
        /\ HasAt(s, i, TokChars("<u-org>"))
        /\ \E k \in (i + 7)..Len(s) : HasAt(s, k, TokChars("</u-org>"))

(***************************************************************************)
(* JavaScript values: strings, objects, arrays, null and undefined, and a  *)
(* thrown TypeError.  A string is a sequence of chunks of characters (the  *)
(* text of a text node one character per chunk, a type or an attribute     *)
(* value in one chunk), an attribute name the sequence of its pieces       *)
(* between "-" and an object a function from property keys to values.      *)
(***************************************************************************)
Str(s)      == [s |-> s]
Obj(f)      == [o |-> f]
Arr(a)      == [a |-> a]
Num(n)      == [n |-> n]
Bool(b)     == [b |-> b]
Null        == [null |-> TRUE]
Undefined   == [undefined |-> TRUE]
TypeError   == [error |-> "TypeError"]
EmptyObject == [k \in {} |-> k]

IsStr(v)   == DOMAIN v = {"s"}
IsObj(v)   == DOMAIN v = {"o"}
IsArr(v)   == DOMAIN v = {"a"}
IsNum(v)   == DOMAIN v = {"n"}
IsBool(v)  == DOMAIN v = {"b"}
IsError(v) == DOMAIN v = {"error"}

\* The truth value of a JavaScript value.
Truthy(v) ==
    IF IsStr(v) THEN v.s # <<>>
    ELSE IF IsNum(v) THEN v.n # 0
    ELSE IF IsBool(v) THEN v.b
    ELSE IsObj(v) \/ IsArr(v)

\* obj[key]
Get(obj, key) == IF key \in DOMAIN obj THEN obj[key] ELSE Undefined

\* obj[key] = value
Set(obj, key, value) == (key :> value) @@ obj

\* The property key written as one JavaScript identifier.
K(id) == <<id>>

(***************************************************************************)
(* parseStyledString(inputString), for any value of inputString.           *)
(***************************************************************************)
\* The decimal digits of a natural number.
RECURSIVE Digits(_)
Digits(n) ==
    LET d == <<"0", "1", "2", "3", "4", "5", "6", "7", "8", "9">>
    IN  IF n < 10 THEN <<d[n + 1]>> ELSE Digits(n \div 10) \o <<d[(n % 10) + 1]>>

\* value.toString(): the string, or the TypeError of reading a property of
\* null or undefined.  An array joins the strings of its elements with ",",
\* null and undefined elements giving the empty string.
RECURSIVE toString(_)
toString(value) ==
    IF IsStr(value) THEN value
    ELSE IF IsNum(value)
         THEN Str(IF value.n < 0 THEN <<"-">> \o Digits(0 - value.n) ELSE Digits(value.n))
    ELSE IF IsBool(value)
         THEN Str(IF value.b THEN <<"t", "r", "u", "e">> ELSE <<"f", "a", "l", "s", "e">>)
    ELSE IF IsObj(value)
         THEN Str(<<"[", "o", "b", "j", "e", "c", "t", " ", "O", "b", "j", "e", "c", "t", "]">>)
    ELSE IF IsArr(value)
         THEN LET Elem(k) == IF value.a[k] \in {Null, Undefined} THEN <<>>
                             ELSE toString(value.a[k]).s
                  Join[k \in 0..Len(value.a)] ==
                      IF k = 0 THEN <<>>
                      ELSE IF k = 1 THEN Elem(1)
                      ELSE Join[k - 1] \o <<",">> \o Elem(k)
              IN  Str(Join[Len(value.a)])
    ELSE TypeError

\* console.log('warning: inputString is not a string', inputString)
warning(inputString) ==
    [message |-> "warning: inputString is not a string", value |-> inputString]

\* The lines written to the console by parseStyledString(inputString).
logged(inputString) ==
    IF IsStr(inputString) THEN <<>> ELSE <<warning(inputString)>>

\* The array of runs returned by parseStyledString(inputString), or the
\* error it throws.
parseStyledString(inputString) ==
    LET string == IF IsStr(inputString) THEN inputString ELSE toString(inputString)
    IN  IF IsError(string) THEN string
        ELSE Arr(processSegments(IF HasUOrg(string.s) THEN stripTags(string.s)
                                 ELSE string.s, {}))

(***************************************************************************)
(* htmlToDocx: parseProperties.                                            *)
(***************************************************************************)
\* The cases of the switch that store attr.value: the path of the property
\* each one assigns; <<>> for the names the switch does not list.
AttrPath(name) ==
    CASE name = <<"data", "positionaltab", "alignment">>
           -> <<K("positionalTab"), K("alignment")>>
      [] name = <<"data", "positionaltab", "leader">>
           -> <<K("positionalTab"), K("leader")>>
      [] name = <<"data", "positionaltab", "relativeto">>
           -> <<K("positionalTab"), K("relativeTo")>>
      [] name = <<"data", "spacing", "before">>
           -> <<K("spacing"), K("before")>>
      [] name = <<"data", "spacing", "after">>
           -> <<K("spacing"), K("after")>>
      [] name = <<"data", "transformation", "width">>
           -> <<K("transformation"), K("width")>>
      [] name = <<"data", "transformation", "height">>
           -> <<K("transformation"), K("height")>>
      [] name = <<"data", "bullet", "level">>
           -> <<K("bullet"), K("level")>>
      [] name = <<"data", "numbering", "reference">>
           -> <<K("numbering"), K("reference")>>
      [] name = <<"data", "numbering", "level">>
           -> <<K("numbering"), K("level")>>
      [] name = <<"data", "numbering", "instance">>
           -> <<K("numbering"), K("instance")>>
      [] name = <<"data", "alttext", "title">>
           -> <<K("altText"), K("title")>>
      [] name = <<"data", "alttext", "description">>
           -> <<K("altText"), K("description")>>
      [] name = <<"data", "alttext", "name">>
           -> <<K("altText"), K("name")>>
      [] name = <<"data", "width", "size">>
           -> <<K("width"), K("size")>>
      [] name = <<"data", "width", "type">>
           -> <<K("width"), K("type")>>
      [] name = <<"data", "margins", "top">>
           -> <<K("margins"), K("top")>>
      [] name = <<"data", "margins", "bottom">>
           -> <<K("margins"), K("bottom")>>
      [] name = <<"data", "margins", "left">>
           -> <<K("margins"), K("left")>>
      [] name = <<"data", "margins", "right">>
           -> <<K("margins"), K("right")>>
      [] name = <<"data", "borders", "top", "style">>
           -> <<K("borders"), K("top"), K("style")>>
      [] name = <<"data", "borders", "top", "size">>
           -> <<K("borders"), K("top"), K("size")>>
      [] name = <<"data", "borders", "top", "color">>
           -> <<K("borders"), K("top"), K("color")>>
      [] name = <<"data", "borders", "bottom", "style">>
           -> <<K("borders"), K("bottom"), K("style")>>
      [] name = <<"data", "borders", "bottom", "size">>
           -> <<K("borders"), K("bottom"), K("size")>>
      [] name = <<"data", "borders", "bottom", "color">>
           -> <<K("borders"), K("bottom"), K("color")>>
      [] name = <<"data", "borders", "left", "style">>
           -> <<K("borders"), K("left"), K("style")>>
      [] name = <<"data", "borders", "left", "size">>
           -> <<K("borders"), K("left"), K("size")>>
      [] name = <<"data", "borders", "left", "color">>
           -> <<K("borders"), K("left"), K("color")>>
      [] name = <<"data", "borders", "right", "style">>
           -> <<K("borders"), K("right"), K("style")>>
      [] name = <<"data", "borders", "right", "size">>
           -> <<K("borders"), K("right"), K("size")>>
      [] name = <<"data", "borders", "right", "color">>
           -> <<K("borders"), K("right"), K("color")>>
      [] name = <<"data", "image", "type">>
           -> <<K("imageType")>>
      [] name = <<"data", "floating", "horizontalposition", "align">>
           -> <<K("floating"), K("horizontalPosition"), K("align")>>
      [] name = <<"data", "floating", "verticalposition", "align">>
           -> <<K("floating"), K("verticalPosition"), K("align")>>
      [] name = <<"data", "floating", "verticalposition", "relative">>
           -> <<K("floating"), K("verticalPosition"), K("relative")>>
      [] OTHER -> <<>>

\* properties.k1 = properties.k1 || {}; ...; properties.k1...kn = value.
\* Assigning a property of a string throws in the strict mode of a module.
RECURSIVE assignPath(_, _, _)
assignPath(obj, path, value) ==
    IF Len(path) = 1 THEN Obj(Set(obj, path[1], value))
    ELSE LET cur   == Get(obj, path[1])
             group == IF Truthy(cur) THEN cur ELSE Obj(EmptyObject)
         IN  IF ~IsObj(group) THEN TypeError
             ELSE LET sub == assignPath(group.o, Tail(path), value)
                  IN  IF IsError(sub) THEN TypeError
                      ELSE Obj(Set(obj, path[1], sub))

\* attr.name.startsWith('data-')
StartsWithData(name) == Len(name) >= 2 /\ name[1] = "data"

\* The body of the loop over the attributes, for one attribute.
parseAttribute(properties, attr) ==
    IF StartsWithData(attr.name) /\ attr.name # <<"data", "type">>
    THEN IF attr.name = <<"data", "underline">>
         THEN Obj(Set(properties, K("underline"), Obj(EmptyObject)))
         ELSE IF AttrPath(attr.name) # <<>>
         THEN assignPath(properties, AttrPath(attr.name), Str(attr.value))
         ELSE Obj(Set(properties, Tail(attr.name), Str(attr.value)))
    ELSE Obj(properties)

\* parseProperties on the attributes from the i-th on: the object of the
\* properties, or the TypeError thrown.
RECURSIVE parsePropertiesFrom(_, _, _)
parsePropertiesFrom(attributes, i, properties) ==
    IF i > Len(attributes) THEN Obj(properties)
    ELSE LET next == parseAttribute(properties, attributes[i])
         IN  IF IsError(next) THEN next
             ELSE parsePropertiesFrom(attributes, i + 1, next.o)

parseProperties(attributes) == parsePropertiesFrom(attributes, 1, EmptyObject)

(***************************************************************************)
(* htmlToDocx: the document.  The nodes of the body are kept in document   *)
(* order, each with its depth below the body (0 for a child of the body).  *)
(***************************************************************************)
TextNode(depth, nodeValue) ==
    [nodeType |-> "text", depth |-> depth, nodeValue |-> nodeValue]

ElementNode(depth, tagName, attributes) ==
    [nodeType |-> "element", depth |-> depth, tagName |-> tagName,
     attributes |-> attributes]

Attr(name, value) == [name |-> name, value |-> value]

\* The depth of node i; the body is node 0.
DepthOf(d, i) == IF i = 0 THEN 0 - 1 ELSE d[i].depth

\* The last node of the subtree of node i.
SubtreeEnd(d, i) ==
    Least({j \in i..Len(d) : j = Len(d) \/ d[j + 1].depth <= DepthOf(d, i)})

\* node.childNodes, as the places of the children in document order.
childNodes(d, i) ==
    SelectSeq([k \in 1..(SubtreeEnd(d, i) - i) |-> i + k],
              LAMBDA j : d[j].depth = DepthOf(d, i) + 1)

\* node.getAttribute(name): the value, or null.
getAttribute(node, name) ==
    IF \E k \in 1..Len(node.attributes) : node.attributes[k].name = name
    THEN Str(node.attributes[CHOOSE k \in 1..Len(node.attributes) :
                                 node.attributes[k].name = name].value)
    ELSE Null

\* tagName.toLowerCase(), on the tag names of the documents.
toLowerCase(tagName) ==
    CASE tagName = <<"P">>              -> <<"p">>
      [] tagName = <<"DIV">>            -> <<"div">>
      [] tagName = <<"SPAN">>           -> <<"span">>
      [] tagName = <<"CONTENTWRAPPER">> -> <<"contentwrapper">>
      [] tagName = <<"EMPTYLINE">>      -> <<"emptyline">>

\* nodeValue.trim()
RECURSIVE trim(_)
trim(s) ==
    IF s = <<>> THEN s
    ELSE IF Head(s) = " " THEN trim(Tail(s))
    ELSE IF s[Len(s)] = " " THEN trim(SubSeq(s, 1, Len(s) - 1))
    ELSE s

\* const type = node.getAttribute('data-type') || node.tagName.toLowerCase()
typeOf(node) ==
    IF Truthy(getAttribute(node, <<"data", "type">>))
    THEN getAttribute(node, <<"data", "type">>).s
    ELSE toLowerCase(node.tagName)

\* child.content in children.map((child) => child.content).join(''): join
\* turns undefined into the empty string.
contentOf(child) ==
    IF IsObj(child) /\ IsStr(Get(child.o, K("content")))
    THEN child.o[K("content")].s ELSE <<>>

RECURSIVE joinContent(_)
joinContent(children) ==
    IF children = <<>> THEN <<>>
    ELSE contentOf(Head(children)) \o joinContent(Tail(children))

(***************************************************************************)
(* htmlToDocx: nodeToObject.  The result is null, the object of a node,    *)
(* the array of a contentWrapper, or the TypeError thrown on the way.      *)
(***************************************************************************)
RECURSIVE nodeToObject(_, _), wrapperChildren(_, _, _), spreadChildren(_, _, _)

\* The loop of a contentWrapper over the children kids: every child object
\* that is not null is pushed as it is.
wrapperChildren(d, kids, children) ==
    IF kids = <<>> THEN Arr(children)
    ELSE LET childObject == nodeToObject(d, Head(kids))
         IN  IF IsError(childObject) THEN childObject
             ELSE IF Truthy(childObject)
             THEN wrapperChildren(d, Tail(kids), Append(children, childObject))
             ELSE wrapperChildren(d, Tail(kids), children)

\* The loop of an element, and of the body, over the children kids: a child
\* object that is an array is spread into the children.
spreadChildren(d, kids, children) ==
    IF kids = <<>> THEN Arr(children)
    ELSE LET childObject == nodeToObject(d, Head(kids))
         IN  IF IsError(childObject) THEN childObject
             ELSE IF Truthy(childObject)
             THEN IF IsArr(childObject)
                  THEN spreadChildren(d, Tail(kids), children \o childObject.a)
                  ELSE spreadChildren(d, Tail(kids), Append(children, childObject))
             ELSE spreadChildren(d, Tail(kids), children)

\* The object of an element that is neither emptyLine nor contentWrapper.
elementObject(type, properties, children) ==
    LET obj == properties @@ (K("type") :> Str(type))
    IN  IF type = <<"text">>
        THEN Obj(Set(obj, K("content"), Str(joinContent(children))))
        ELSE IF Len(children) > 0
        THEN Obj(Set(obj, K("children"), Arr(children)))
        ELSE Obj(obj)

\* The test of an emptyLine that never holds.
isEmptyLineNever(type) == FALSE

\* type === 'emptyLine'
isEmptyLine(type) == type = <<"emptyLine">>

\* type === 'contentWrapper'
isContentWrapper(type) == type = <<"contentWrapper">>

nodeToObject(d, i) ==
    IF d[i].nodeType = "text"
    THEN IF trim(d[i].nodeValue) # <<>>
         THEN Obj((K("type") :> Str(<<"text">>)) @@ (K("content") :> Str(d[i].nodeValue)))
         ELSE Null
    ELSE LET type == typeOf(d[i])
         IN  IF isEmptyLine(type) THEN Null
             ELSE IF isContentWrapper(type)
             THEN wrapperChildren(d, childNodes(d, i), <<>>)
             ELSE LET properties == parseProperties(d[i].attributes)
                      children   == spreadChildren(d, childNodes(d, i), <<>>)
                  IN  IF IsError(properties) THEN properties
                      ELSE IF IsError(children) THEN children
                      ELSE elementObject(type, properties.o, children.a)

htmlToDocx(d) == spreadChildren(d, childNodes(d, 0), <<>>)

(***************************************************************************)
(* parseBlockContent.  The block is the record of its fields, a missing    *)
(* field being undefined; block.items holds the objects getBlockItems()    *)
(* returns.  The arrays and objects the function changes in place are the  *)
(* ones of the block, so the action writes them back to the block.         *)
(***************************************************************************)
\* item.includes(delimiter)
includes(item, delimiter) == \E i \in 1..Len(item) : HasAt(item, i, delimiter)

\* item.split(delimiter), for a delimiter that is not empty.
RECURSIVE split(_, _)
split(item, delimiter) ==
    IF includes(item, delimiter)
    THEN LET i == Least({k \in 1..Len(item) : HasAt(item, k, delimiter)})
         IN  <<Str(Slice(item, 1, i - 1))>>
             \o split(Slice(item, i + Len(delimiter), Len(item)), delimiter)
    ELSE <<Str(item)>>

\* splitByBrTag that keeps every item whole.
splitByBrTagNoSplit(arr) == arr

\* splitByBrTag(arr), with the default delimiter '<br>'.
RECURSIVE splitByBrTag(_)
splitByBrTag(arr) ==
    IF arr = <<>> THEN <<>>
    ELSE (IF includes(Head(arr).s, TokChars("<br>"))
          THEN split(Head(arr).s, TokChars("<br>"))
          ELSE <<Head(arr)>>)
         \o splitByBrTag(Tail(arr))

\* arr.filter((p) => p)
filterTruthy(arr) == SelectSeq(arr, Truthy)

\* value || [] for an array that may be missing.
orEmpty(value) == IF Truthy(value) THEN value.a ELSE <<>>

\* list.forEach((item) => { item.paragraphs = item.paragraphs.filter((p) => p) })
\* on every list of lists.
filterLists(lists) ==
    [l \in 1..Len(lists) |->
        Arr([e \in 1..Len(lists[l].a) |->
                [lists[l].a[e] EXCEPT !.paragraphs = Arr(filterTruthy(@.a))]])]

\* The first loop over the items: the banner of an item joins its images.
moveBanner(item) ==
    IF Truthy(item.banner)
    THEN [item EXCEPT !.images = Arr(Append(@.a, item.banner)), !.banner = Undefined]
    ELSE item

\* The later loops over the items, on one item.
cleanItem(item) ==
    LET filtered == [item EXCEPT !.paragraphs = Arr(filterTruthy(@.a))]
        listed   == IF Truthy(filtered.lists) /\ Len(filtered.lists.a) > 0
                    THEN [filtered EXCEPT !.lists = Arr(filterLists(@.a))]
                    ELSE filtered
    IN  [listed EXCEPT !.paragraphs = Arr(splitByBrTag(@.a))]

\* block.main?.x
MainField(b, field) == IF b.main = Undefined THEN Undefined ELSE b.main[field]

\* body.x for const body = block.main?.body || {}
BodyField(b, field) ==
    IF MainField(b, "body") = Undefined THEN Undefined ELSE b.main.body[field]

\* const { pretitle = '', ... } = block.main?.header || {}
HeaderField(b, field) ==
    IF MainField(b, "header") = Undefined \/ b.main.header[field] = Undefined
    THEN Str(<<>>) ELSE b.main.header[field]

\* The images after: images = body.imgs || []; if (banner) images.push(banner).
imagesOf(b) ==
    IF Truthy(MainField(b, "banner"))
    THEN Append(orEmpty(BodyField(b, "imgs")), b.main.banner)
    ELSE orEmpty(BodyField(b, "imgs"))

\* The value parseBlockContent returns.
parseBlockContent(b) ==
    [pretitle    |-> HeaderField(b, "pretitle"),
     title       |-> HeaderField(b, "title"),
     subtitle    |-> HeaderField(b, "subtitle"),
     description |-> HeaderField(b, "description"),
     paragraphs  |-> Arr(splitByBrTag(filterTruthy(orEmpty(BodyField(b, "paragraphs"))))),
     images      |-> Arr(imagesOf(b)),
     links       |-> Arr(orEmpty(BodyField(b, "links"))),
     lists       |-> Arr(filterLists(orEmpty(BodyField(b, "lists")))),
     tables      |-> Arr(<<>>),
     items       |-> Arr([k \in 1..Len(b.items) |-> cleanItem(moveBanner(b.items[k]))]),
     properties  |-> Obj(EmptyObject)]

\* The block after the call: the items, body.imgs and the entries of
\* body.lists are changed in place.
blockAfter(b) ==
    LET body == IF MainField(b, "body") = Undefined THEN Undefined
                ELSE [b.main.body EXCEPT
                        !.imgs  = IF Truthy(@) THEN Arr(imagesOf(b)) ELSE @,
                        !.lists = IF Truthy(@) THEN Arr(filterLists(@.a)) ELSE @]
    IN  [main  |-> IF b.main = Undefined THEN Undefined
                   ELSE [b.main EXCEPT !.body = body],
         items |-> [k \in 1..Len(b.items) |-> cleanItem(moveBanner(b.items[k]))]]

(***************************************************************************)
(* The strings given to parseStyledString.                                 *)
(***************************************************************************)
TokenFamilies ==
    {{"x", "<b>", "</b>", "<i>", "</i>"},
     {"a", "b", "c", "<b>", "</b>"},
     {"x", "<u>", "</u>", "<span>", "</span>"},
     {"x", "<strong>", "</strong>", "<em>", "</em>"},
     {"x", "<b>", "</b>", "<b k>", "<br>"},
     {"x", "<b>", "</b>", "<u-org>", "</u-org>"},
     {"x", "&amp;", "&lt;b&gt;", "&lt;/b&gt;", "<u-org>", "</u-org>"}}

SeqsUpTo(S, n) == UNION {[1..k -> S] : k \in 0..n}

StyledInputs == UNION {SeqsUpTo(F, MaxTokens) : F \in TokenFamilies}

InitStyled ==
    /\ pc = "styled"
    /\ input \in StyledInputs
    /\ runs = <<>>
    /\ dom = <<>>
    /\ out = Null
    /\ block = Undefined
    /\ parsed = Undefined
    /\ calls = 0
    /\ arg = Str(Flatten(input))
    /\ console = <<>>

ParseStyled ==
    /\ pc = "styled"
    /\ console' = console \o logged(arg)
    /\ runs' = IF IsError(parseStyledString(arg)) THEN runs
               ELSE parseStyledString(arg).a
    /\ pc' = IF IsError(parseStyledString(arg)) THEN "threw" ELSE "done"
    /\ UNCHANGED <<input, arg, dom, out, block, parsed, calls>>

NextStyled == ParseStyled

SpecStyled == InitStyled /\ [][NextStyled]_vars

(***************************************************************************)
(* The values other than strings given to parseStyledString.               *)
(***************************************************************************)
ElemValues ==
    {Str(<<"x">>), Str(Flatten(<<"<b>", "x", "</b>">>)),
     Str(TokChars("<u-org>")), Str(TokChars("</u-org>")),
     Num(1), Bool(TRUE), Null, Undefined, Arr(<<>>), Arr(<<Num(1), Num(2)>>)}

NonStrings ==
    {Num(n) : n \in (0 - MaxNumber)..MaxNumber}
      \cup {Bool(b) : b \in BOOLEAN}
      \cup {Null, Undefined}
      \cup {Obj(EmptyObject), Obj(K("a") :> Num(1))}
      \cup {Arr(a) : a \in SeqsUpTo(ElemValues, MaxElems)}

InitCoerce ==
    /\ pc = "styled"
    /\ arg \in NonStrings
    /\ console = <<>>
    /\ input = <<>>
    /\ runs = <<>>
    /\ dom = <<>>
    /\ out = Null
    /\ block = Undefined
    /\ parsed = Undefined
    /\ calls = 0

NextCoerce == ParseStyled

SpecCoerce == InitCoerce /\ [][NextCoerce]_vars

(***************************************************************************)
(* The documents given to htmlToDocx: built node by node in document       *)
(* order, as the parser of the markup does.                                *)
(***************************************************************************)
TextValues == {<<"a">>, <<"b">>, <<" ">>}

\* The elements of the documents: tag name and attributes.
ElementKinds ==
    {[tagName |-> <<"P">>,    attributes |-> <<Attr(<<"data", "type">>, <<"paragraph">>)>>],
     [tagName |-> <<"SPAN">>, attributes |-> <<Attr(<<"data", "type">>, <<"text">>)>>],
     [tagName |-> <<"SPAN">>, attributes |-> <<Attr(<<"data", "type">>, <<"contentWrapper">>)>>],
     [tagName |-> <<"SPAN">>, attributes |-> <<Attr(<<"data", "type">>, <<"emptyLine">>)>>],
     [tagName |-> <<"DIV">>,  attributes |-> <<>>]}

\* The depths at which a node can follow the nodes of d.
NextDepths(d) ==
    IF d = <<>> THEN {0}
    ELSE 0..(IF d[Len(d)].nodeType = "element"
             THEN d[Len(d)].depth + 1 ELSE d[Len(d)].depth)

InitDocx ==
    /\ pc = "build"
    /\ dom = <<>>
    /\ out = Null
    /\ input = <<>>
    /\ runs = <<>>
    /\ block = Undefined
    /\ parsed = Undefined
    /\ calls = 0
    /\ arg = Undefined
    /\ console = <<>>

\* The parser appends a text node; two text nodes are never adjacent.
AppendText ==
    /\ pc = "build"
    /\ Len(dom) < MaxNodes
    /\ \E v \in TextValues, depth \in NextDepths(dom) :
          /\ ~(dom # <<>> /\ dom[Len(dom)].nodeType = "text"
                          /\ dom[Len(dom)].depth = depth)
          /\ dom' = Append(dom, TextNode(depth, v))
    /\ UNCHANGED <<pc, out, input, runs, block, parsed, calls, arg, console>>

\* The parser appends an element.
AppendElement ==
    /\ pc = "build"
    /\ Len(dom) < MaxNodes
    /\ \E e \in ElementKinds, depth \in NextDepths(dom) :
          dom' = Append(dom, ElementNode(depth, e.tagName, e.attributes))
    /\ UNCHANGED <<pc, out, input, runs, block, parsed, calls, arg, console>>

ConvertDocx ==
    /\ pc = "build"
    /\ out' = htmlToDocx(dom)
    /\ pc' = "done"
    /\ UNCHANGED <<dom, input, runs, block, parsed, calls, arg, console>>

NextDocx == AppendText \/ AppendElement \/ ConvertDocx

SpecDocx == InitDocx /\ [][NextDocx]_vars

(***************************************************************************)
(* The documents with text in white space and with elements named after    *)
(* the structural types.                                                   *)
(***************************************************************************)
PaddedTextValues == {<<" ", "a">>, <<"a", " ">>, <<" ", " ">>}

TaggedKinds ==
    {[tagName |-> <<"CONTENTWRAPPER">>, attributes |-> <<>>],
     [tagName |-> <<"EMPTYLINE">>,      attributes |-> <<>>],
     [tagName |-> <<"DIV">>,  attributes |-> <<Attr(<<"data", "type">>, <<>>)>>],
     [tagName |-> <<"SPAN">>, attributes |-> <<Attr(<<"data", "type">>, <<"emptyline">>)>>]}

\* The parser appends a text node with white space around its text.
AppendPaddedText ==
    /\ pc = "build"
    /\ Len(dom) < MaxTagNodes
    /\ \E v \in PaddedTextValues, depth \in NextDepths(dom) :
          /\ ~(dom # <<>> /\ dom[Len(dom)].nodeType = "text"
                          /\ dom[Len(dom)].depth = depth)
          /\ dom' = Append(dom, TextNode(depth, v))
    /\ UNCHANGED <<pc, out, input, runs, block, parsed, calls, arg, console>>

\* The parser appends an element named after a structural type.
AppendTagged ==
    /\ pc = "build"
    /\ Len(dom) < MaxTagNodes
    /\ \E e \in TaggedKinds, depth \in NextDepths(dom) :
          dom' = Append(dom, ElementNode(depth, e.tagName, e.attributes))
    /\ UNCHANGED <<pc, out, input, runs, block, parsed, calls, arg, console>>

NextTags == AppendText \/ AppendElement \/ AppendPaddedText \/ AppendTagged \/ ConvertDocx

SpecTags == InitDocx /\ [][NextTags]_vars

(***************************************************************************)
(* The attributes given to htmlToDocx: one element, of type paragraph or   *)
(* text, with or without a child, whose attributes are set one by one.     *)
(***************************************************************************)
AttrValues == {<<"50">>, <<>>}

\* The names of the attributes of an element are taken from one group of
\* the switch, with the name that stops at the group (data-spacing), a
\* name the switch does not list and a name without the data- prefix.
GroupNames(group, fields) ==
    {<<"data", group, f>> : f \in fields}
        \cup {<<"data", group>>, <<"data", "foo">>, <<"id">>}

AttrFamilies ==
    {GroupNames("positionaltab", {"alignment", "leader", "relativeto"}),
     GroupNames("spacing", {"before", "after"}),
     GroupNames("transformation", {"width", "height"}),
     GroupNames("bullet", {"level"}),
     GroupNames("numbering", {"reference", "level", "instance"}),
     GroupNames("alttext", {"title", "description", "name"}),
     GroupNames("width", {"size", "type"}),
     GroupNames("margins", {"top", "bottom", "left", "right"}),
     {<<"data", "borders", side, f>> :
          side \in {"top", "bottom", "left", "right"}, f \in {"style", "size", "color"}}
        \cup {<<"data", "borders">>, <<"data", "borders", "top">>},
     {<<"data", "floating", "horizontalposition", "align">>,
      <<"data", "floating", "verticalposition", "align">>,
      <<"data", "floating", "verticalposition", "relative">>,
      <<"data", "floating">>, <<"data", "image", "type">>, <<"data", "image">>},
     {<<"data", "underline">>, <<"data", "foo">>, <<"data", "foo", "bar">>,
      <<"data", "content">>, <<"data", "children">>, <<"class">>, <<"data">>}}

AttrNamesOf(node) ==
    {node.attributes[k].name : k \in 1..Len(node.attributes)} \ {<<"data", "type">>}

InitAttrs ==
    /\ pc = "build"
    /\ \E type \in {<<"paragraph">>, <<"text">>} :
          dom = <<ElementNode(0, <<"SPAN">>, <<Attr(<<"data", "type">>, type)>>)>>
    /\ out = Null
    /\ input = <<>>
    /\ runs = <<>>
    /\ block = Undefined
    /\ parsed = Undefined
    /\ calls = 0
    /\ arg = Undefined
    /\ console = <<>>

\* The parser adds an attribute to the element; the names are distinct.
SetAttribute ==
    /\ pc = "build"
    /\ Len(dom[1].attributes) < MaxAttrs + 1
    /\ \E F \in AttrFamilies, name \in UNION AttrFamilies, value \in AttrValues :
          /\ name \notin AttrNamesOf(dom[1])
          /\ AttrNamesOf(dom[1]) \cup {name} \subseteq F
          /\ dom' = [dom EXCEPT ![1].attributes = Append(@, Attr(name, value))]
    /\ UNCHANGED <<pc, out, input, runs, block, parsed, calls, arg, console>>

\* The parser adds the text of the element.
AppendChildText ==
    /\ pc = "build"
    /\ Len(dom) = 1
    /\ dom' = Append(dom, TextNode(1, <<"a">>))
    /\ UNCHANGED <<pc, out, input, runs, block, parsed, calls, arg, console>>

NextAttrs == SetAttribute \/ AppendChildText \/ ConvertDocx

SpecAttrs == InitAttrs /\ [][NextAttrs]_vars

(***************************************************************************)
(* The blocks given to parseBlockContent.                                  *)
(***************************************************************************)
\* The entries of a list of paragraphs: strings, the empty one included,
\* and null.
ParaValues ==
    {Null} \cup {Str(Flatten(t)) : t \in SeqsUpTo({"a", "<br>"}, MaxParaTokens)}

SomeParas == <<Str(Flatten(<<"a", "<br>", "b">>)), Str(<<>>)>>

ListEntry(paragraphs) == [paragraphs |-> Arr(paragraphs)]

SomeLists == Arr(<<Arr(<<ListEntry(SomeParas)>>)>>)

Item(paragraphs, banner, lists) ==
    [paragraphs |-> Arr(paragraphs), images |-> Arr(<<>>),
     banner |-> banner, lists |-> lists]

Block(header, paragraphs, imgs, lists, banner, items) ==
    [main  |-> [header |-> header,
                body   |-> [paragraphs |-> paragraphs, imgs |-> imgs,
                            links |-> Undefined, lists |-> lists],
                banner |-> banner],
     items |-> items]

SomeHeader ==
    [pretitle |-> Undefined, title |-> Str(<<"t">>),
     subtitle |-> Undefined, description |-> Undefined]

Blocks ==
    {Block(Undefined, Arr(ps), Undefined, Undefined, Undefined, <<>>) :
        ps \in SeqsUpTo(ParaValues, MaxParas)}
    \cup
    {Block(header, paragraphs, imgs, lists, banner, items) :
        header \in {Undefined, SomeHeader},
        paragraphs \in {Undefined, Arr(SomeParas)},
        imgs \in {Undefined, Arr(<<Str(<<"img">>)>>)},
        lists \in {Undefined, SomeLists},
        banner \in {Undefined, Str(<<"banner">>)},
        items \in {<<>>} \cup
                  {<<Item(ps, b, ls)>> :
                      ps \in {<<>>, SomeParas},
                      b \in {Undefined, Str(<<"itembanner">>)},
                      ls \in {Undefined, SomeLists}}}
    \cup
    {[main |-> Undefined, items |-> <<>>],
     [main |-> [header |-> Undefined, body |-> Undefined, banner |-> Undefined],
      items |-> <<>>]}

InitBlock ==
    /\ pc = "block"
    /\ block \in Blocks
    /\ parsed = Undefined
    /\ calls = 0
    /\ arg = Undefined
    /\ console = <<>>
    /\ input = <<>>
    /\ runs = <<>>
    /\ dom = <<>>
    /\ out = Null

\* A call of parseBlockContent(block).
ParseBlock ==
    /\ pc = "block"
    /\ calls < MaxCalls
    /\ parsed' = parseBlockContent(block)
    /\ block' = blockAfter(block)
    /\ calls' = calls + 1
    /\ UNCHANGED <<pc, input, runs, dom, out, arg, console>>

NextBlock == ParseBlock

SpecBlock == InitBlock /\ [][NextBlock]_vars

(***************************************************************************)
(* Reference notions on the pieces of text, used to state the properties.  *)
(***************************************************************************)
PlainTokens == {"a", "b", "c", "x", "&amp;", "&lt;b&gt;", "&lt;/b&gt;"}
OpenTokens  == {"<b>", "<i>", "<u>", "<em>", "<strong>", "<span>"}
CloseTokens == {"</b>", "</i>", "</u>", "</em>", "</strong>", "</span>"}

\* The opening tag a closing tag closes.
OpenOf(t) ==
    CASE t = "</b>" -> "<b>" [] t = "</i>" -> "<i>" [] t = "</u>" -> "<u>"
      [] t = "</em>" -> "<em>" [] t = "</strong>" -> "<strong>"
      [] t = "</span>" -> "<span>"

\* The style an opening tag stands for.
StyleOf(t) ==
    CASE t \in {"<b>", "<strong>"} -> {"bold"}
      [] t \in {"<i>", "<em>"}     -> {"italics"}
      [] t = "<u>"                 -> {"underline"}
      [] OTHER                     -> {}

\* The text of a sequence of pieces with every tag removed.
RECURSIVE PlainText(_)
PlainText(toks) ==
    IF toks = <<>> THEN <<>>
    ELSE (IF Head(toks) \in PlainTokens THEN TokChars(Head(toks)) ELSE <<>>)
         \o PlainText(Tail(toks))

\* The contents of a sequence of runs, one after the other.
RECURSIVE ConcatContent(_)
ConcatContent(rs) ==
    IF rs = <<>> THEN <<>> ELSE Head(rs).content \o ConcatContent(Tail(rs))

\* A string holds a markup tag when a "<" is followed, later, by a ">".
HasTag(s) == \E i \in 1..Len(s) : \E k \in (i + 1)..Len(s) : s[i] = "<" /\ s[k] = ">"

Run(content, styles) == [type |-> "text", content |-> content, styles |-> styles]

(***************************************************************************)
(* C1.  For a string without markup tags (the empty string included)       *)
(* parseStyledString returns exactly one run, whose content is the string  *)
(* and which has no style flag; parsing that content again gives the same  *)
(* single run.                                                             *)
(***************************************************************************)
C1_TagFreeSingleRun ==
    (pc = "done" /\ ~HasTag(Flatten(input)))
        => /\ runs = <<Run(Flatten(input), {})>>
           /\ parseStyledString(Str(runs[1].content)) = Arr(runs)

C1_Witness ==
    /\ pc = "done"
    /\ input = <<"x", "&amp;", "x">>
    /\ runs = <<Run(<<"x", "&", "a", "m", "p", ";", "x">>, {})>>

(***************************************************************************)
(* C2.  For every string, the contents of the runs of parseStyledString,   *)
(* concatenated in order, are the string with all markup tags removed      *)
(* (unclosed tags, tags with attributes and a tag nested in a tag of the   *)
(* same name included).  Stated on the strings without character           *)
(* references, which stripTags decodes.                                    *)
(***************************************************************************)
C2_ContentIsPlainText ==
    (pc = "done" /\ \A k \in 1..Len(input) :
                       input[k] \notin {"&amp;", "&lt;b&gt;", "&lt;/b&gt;"})
        => ConcatContent(runs) = PlainText(input)

(***************************************************************************)
(* C3.  Styles accumulate through nesting.  A matched pair is an opening   *)
(* tag and the nearest closing tag of its name after it: every character   *)
(* of the runs carries exactly the styles of the matched pairs around it,  *)
(* so that no style leaves the pair that introduced it; in a string of     *)
(* properly nested pairs (no tag inside a tag of its own name) these are   *)
(* the styles of the tags open at the character; "<b><i>x</i></b>" yields  *)
(* the single run x with bold and italics.                                 *)
(***************************************************************************)
RECURSIVE WellNestedFrom(_, _, _)
WellNestedFrom(toks, i, stack) ==
    IF i > Len(toks) THEN stack = <<>>
    ELSE IF toks[i] \in PlainTokens THEN WellNestedFrom(toks, i + 1, stack)
    ELSE IF toks[i] \in OpenTokens
         THEN /\ \A k \in 1..Len(stack) : stack[k] # toks[i]
              /\ WellNestedFrom(toks, i + 1, Append(stack, toks[i]))
    ELSE IF toks[i] \in CloseTokens
         THEN /\ stack # <<>>
              /\ stack[Len(stack)] = OpenOf(toks[i])
              /\ WellNestedFrom(toks, i + 1, SubSeq(stack, 1, Len(stack) - 1))
    ELSE FALSE

WellNested(toks) == WellNestedFrom(toks, 1, <<>>)

Styled(chars, styles) == [k \in 1..Len(chars) |-> [ch |-> chars[k], styles |-> styles]]

\* The characters of text of a well nested string, each with the styles of
\* the tags open at its place.
RECURSIVE EnclosingStyles(_, _, _)
EnclosingStyles(toks, i, stack) ==
    IF i > Len(toks) THEN <<>>
    ELSE IF toks[i] \in PlainTokens
         THEN Styled(TokChars(toks[i]), UNION {StyleOf(stack[k]) : k \in 1..Len(stack)})
              \o EnclosingStyles(toks, i + 1, stack)
    ELSE IF toks[i] \in OpenTokens
         THEN EnclosingStyles(toks, i + 1, Append(stack, toks[i]))
    ELSE EnclosingStyles(toks, i + 1, SubSeq(stack, 1, Len(stack) - 1))

\* The characters of the runs, each with the styles of its run.
RECURSIVE CharStyles(_)
CharStyles(rs) ==
    IF rs = <<>> THEN <<>>
    ELSE Styled(Head(rs).content, Head(rs).styles) \o CharStyles(Tail(rs))

\* The characters of a string, each with the styles of the matched pairs
\* around it; the tags that are not matched are text.
RECURSIVE PairStyles(_, _)
PairStyles(toks, styles) ==
    IF toks = <<>> THEN <<>>
    ELSE LET closers == {k \in 2..Len(toks) :
                            /\ Head(toks) \in OpenTokens
                            /\ toks[k] \in CloseTokens
                            /\ OpenOf(toks[k]) = Head(toks)}
         IN  IF closers = {}
             THEN Styled(TokChars(Head(toks)), styles) \o PairStyles(Tail(toks), styles)
             ELSE PairStyles(SubSeq(toks, 2, Least(closers) - 1),
                             styles \cup StyleOf(Head(toks)))
                  \o PairStyles(SubSeq(toks, Least(closers) + 1, Len(toks)), styles)

\* The string has a <u-org> followed by a </u-org>.
HasUOrgPair(toks) ==
    \E i \in 1..Len(toks) : \E k \in (i + 1)..Len(toks) :
        toks[i] = "<u-org>" /\ toks[k] = "</u-org>"

C3_StylesAccumulate ==
    pc = "done"
        => /\ ~HasUOrgPair(input) => CharStyles(runs) = PairStyles(input, {})
           /\ WellNested(input) => CharStyles(runs) = EnclosingStyles(input, 1, <<>>)
           /\ input = <<"<b>", "<i>", "x", "</i>", "</b>">>
                => runs = <<Run(<<"x">>, {"bold", "italics"})>>

C3_Witness ==
    /\ pc = "done"
    /\ input = <<"<b>", "<i>", "x", "</i>", "</b>">>
    /\ runs = <<Run(<<"x">>, {"bold", "italics"})>>

(***************************************************************************)
(* C4.  Sibling segments come out in the left-to-right order of the text:  *)
(* in a string made of text and of tag pairs around text, each non-empty   *)
(* stretch of text outside the pairs is one unstyled run and each pair is  *)
(* one run of its inner text with the style of its tag, in the order of    *)
(* the string; "a<b>b</b>c" yields the runs a, b (bold), c.                *)
(***************************************************************************)
\* The place of the first piece at or after i that is not text.
FirstTagFrom(toks, i) ==
    Least({k \in i..(Len(toks) + 1) : k = Len(toks) + 1 \/ toks[k] \notin PlainTokens})

\* The string is text and tag pairs around text only.
RECURSIVE Siblings(_, _)
Siblings(toks, i) ==
    IF i > Len(toks) THEN TRUE
    ELSE IF toks[i] \in PlainTokens THEN Siblings(toks, i + 1)
    ELSE IF toks[i] \in OpenTokens
         THEN LET k == FirstTagFrom(toks, i + 1)
              IN  /\ k <= Len(toks)
                  /\ toks[k] \in CloseTokens
                  /\ OpenOf(toks[k]) = toks[i]
                  /\ Siblings(toks, k + 1)
    ELSE FALSE

RECURSIVE SiblingRuns(_, _)
SiblingRuns(toks, i) ==
    IF i > Len(toks) THEN <<>>
    ELSE IF toks[i] \in PlainTokens
         THEN LET k == FirstTagFrom(toks, i)
              IN  <<Run(Flatten(SubSeq(toks, i, k - 1)), {})>> \o SiblingRuns(toks, k)
    ELSE LET k == FirstTagFrom(toks, i + 1)
         IN  <<Run(Flatten(SubSeq(toks, i + 1, k - 1)), StyleOf(toks[i]))>>
             \o SiblingRuns(toks, k + 1)

C4_SiblingOrder ==
    (pc = "done" /\ input # <<>> /\ Siblings(input, 1)) => runs = SiblingRuns(input, 1)

C4_Witness ==
    /\ pc = "done"
    /\ input = <<"a", "<b>", "b", "</b>", "c">>
    /\ runs = <<Run(<<"a">>, {}), Run(<<"b">>, {"bold"}), Run(<<"c">>, {})>>

(***************************************************************************)
(* C5.  When the whole string is wrapped in <u-org>...</u-org>, the tags   *)
(* inside are stripped and not read as styling: the result is one run      *)
(* without style flags whose content is the inner plain text.              *)
(***************************************************************************)
WholeWrapped(toks) ==
    /\ Len(toks) >= 2
    /\ toks[1] = "<u-org>"
    /\ toks[Len(toks)] = "</u-org>"
    /\ \A k \in 2..(Len(toks) - 1) : toks[k] \notin {"<u-org>", "</u-org>"}

\* The text a piece of plain text stands for.
Decoded(t) ==
    CASE t = "&amp;"      -> <<"&">>
      [] t = "&lt;b&gt;"  -> <<"<", "b", ">">>
      [] t = "&lt;/b&gt;" -> <<"<", "/", "b", ">">>
      [] OTHER            -> TokChars(t)

RECURSIVE DecodedPlainText(_)
DecodedPlainText(toks) ==
    IF toks = <<>> THEN <<>>
    ELSE (IF Head(toks) \in PlainTokens THEN Decoded(Head(toks)) ELSE <<>>)
         \o DecodedPlainText(Tail(toks))

C5_UOrgStripsTags ==
    (pc = "done" /\ WholeWrapped(input))
        => runs = <<Run(DecodedPlainText(input), {})>>

(***************************************************************************)
(* Reference notions on the documents, used to state the properties.       *)
(***************************************************************************)
\* Node i lies in the subtree of a node j, itself included, for which
\* Marked(j) holds.
InSubtreeOf(d, i, Marked(_)) ==
    \E j \in 1..i : Marked(j) /\ i <= SubtreeEnd(d, j)

\* The number of proper ancestors j of node i for which Marked(j) holds.
AncestorsOf(d, i, Marked(_)) ==
    Cardinality({j \in 1..(i - 1) : Marked(j) /\ i <= SubtreeEnd(d, j)})

IsElementOfType(d, i, type) ==
    d[i].nodeType = "element" /\ typeOf(d[i]) = type

\* The document without the elements of type emptyLine and their subtrees.
WithoutEmptyLines(d) ==
    LET Marked(j) == IsElementOfType(d, j, <<"emptyLine">>)
        kept      == SelectSeq([k \in 1..Len(d) |-> k],
                               LAMBDA i : ~InSubtreeOf(d, i, Marked))
    IN  [k \in 1..Len(kept) |-> d[kept[k]]]

\* The document in which the children of every element of type
\* contentWrapper stand in the place of the element.
Unwrapped(d) ==
    LET Marked(j) == IsElementOfType(d, j, <<"contentWrapper">>)
        kept      == SelectSeq([k \in 1..Len(d) |-> k], LAMBDA i : ~Marked(i))
    IN  [k \in 1..Len(kept) |->
            [d[kept[k]] EXCEPT !.depth = @ - AncestorsOf(d, kept[k], Marked)]]

\* A value of the output is, or holds at some depth, a node of the type.
RECURSIVE HoldsType(_, _)
HoldsType(v, type) ==
    IF IsArr(v) THEN \E k \in 1..Len(v.a) : HoldsType(v.a[k], type)
    ELSE IF IsObj(v)
         THEN \/ (IsStr(Get(v.o, K("type"))) /\ v.o[K("type")].s = type)
              \/ HoldsType(Get(v.o, K("children")), type)
    ELSE FALSE

(***************************************************************************)
(* C6.  No node of type contentWrapper appears in the output of            *)
(* htmlToDocx, at any depth: the reduced children of a contentWrapper      *)
(* stand in its place among the children of its parent (or in the result), *)
(* in their order, as if the wrapper had not been there.                   *)
(***************************************************************************)
C6_WrapperSpliced ==
    pc = "done"
        => /\ ~HoldsType(out, <<"contentWrapper">>)
           /\ out = htmlToDocx(Unwrapped(dom))

(***************************************************************************)
(* C7.  An element of type emptyLine contributes nothing: the output is    *)
(* the output of the document without the emptyLine elements and their     *)
(* descendants.                                                            *)
(***************************************************************************)
C7_EmptyLinePruned ==
    pc = "done" => out = htmlToDocx(WithoutEmptyLines(dom))

C7_Witness ==
    /\ pc = "done"
    /\ dom = <<ElementNode(0, <<"P">>, <<Attr(<<"data", "type">>, <<"paragraph">>)>>),
               ElementNode(1, <<"SPAN">>, <<Attr(<<"data", "type">>, <<"emptyLine">>)>>),
               TextNode(2, <<"a">>),
               TextNode(1, <<"b">>)>>
    /\ out = Arr(<<Obj((K("type") :> Str(<<"paragraph">>))
                   @@ (K("children") :> Arr(<<Obj((K("type") :> Str(<<"text">>))
                                               @@ (K("content") :> Str(<<"b">>)))>>)))>>)

(***************************************************************************)
(* Reference notions on the attributes: the documented vocabulary.         *)
(***************************************************************************)
Fields(group, fields) == {<<"data", group, f>> : f \in fields}

\* The data-* names of the attribute vocabulary.
Vocabulary ==
    {<<"data", "underline">>, <<"data", "image", "type">>}
      \cup Fields("positionaltab", {"alignment", "leader", "relativeto"})
      \cup Fields("spacing", {"before", "after"})
      \cup Fields("transformation", {"width", "height"})
      \cup Fields("bullet", {"level"})
      \cup Fields("numbering", {"reference", "level", "instance"})
      \cup Fields("alttext", {"title", "description", "name"})
      \cup Fields("width", {"size", "type"})
      \cup Fields("margins", {"top", "bottom", "left", "right"})
      \cup {<<"data", "borders", side, f>> :
                side \in {"top", "bottom", "left", "right"},
                f \in {"style", "size", "color"}}
      \cup {<<"data", "floating", "horizontalposition", "align">>,
            <<"data", "floating", "verticalposition", "align">>,
            <<"data", "floating", "verticalposition", "relative">>}

\* The documented path of a name of the vocabulary.
DocumentedPath(name) ==
    IF name = <<"data", "image", "type">> THEN <<K("imageType")>>
    ELSE IF name[2] = "positionaltab"
         THEN <<K("positionalTab"),
                K(IF name[3] = "relativeto" THEN "relativeTo" ELSE name[3])>>
    ELSE IF name[2] = "alttext" THEN <<K("altText"), K(name[3])>>
    ELSE IF name[2] = "floating"
         THEN <<K("floating"),
                K(IF name[3] = "horizontalposition"
                  THEN "horizontalPosition" ELSE "verticalPosition"),
                K(name[4])>>
    ELSE [k \in 1..(Len(name) - 1) |-> K(name[k + 1])]

\* The value found in v along a path of property keys.
RECURSIVE ValueAt(_, _)
ValueAt(v, path) ==
    IF path = <<>> THEN v
    ELSE IF IsObj(v) THEN ValueAt(Get(v.o, Head(path)), Tail(path))
    ELSE Undefined

\* The data-* attributes of a node other than data-type.
DataAttrs(node) ==
    {k \in 1..Len(node.attributes) :
        /\ Len(node.attributes[k].name) >= 2
        /\ node.attributes[k].name[1] = "data"
        /\ node.attributes[k].name # <<"data", "type">>}

(***************************************************************************)
(* C8.  For every attribute of an element whose name is in the vocabulary, *)
(* the output of htmlToDocx has the value of the attribute at the          *)
(* documented path of the object of the element (the empty record for      *)
(* data-underline), the attributes of one group in one record.             *)
(***************************************************************************)
C8_VocabularyMapped ==
    (pc = "done" /\ Len(dom) >= 1 /\ Len(dom[1].attributes) > 1)
        => \A k \in DataAttrs(dom[1]) :
              dom[1].attributes[k].name \in Vocabulary
                 => /\ IsArr(out)
                    /\ ValueAt(out.a[1], DocumentedPath(dom[1].attributes[k].name))
                         = IF dom[1].attributes[k].name = <<"data", "underline">>
                           THEN Obj(EmptyObject)
                           ELSE Str(dom[1].attributes[k].value)

(***************************************************************************)
(* C9.  Every data-* attribute other than data-type whose name is not in   *)
(* the vocabulary is kept under the key that is its name without data-,    *)
(* with its value; the attributes without the data- prefix, and data-type, *)
(* give no property.                                                       *)
(***************************************************************************)
C9_UnknownKeptFlat ==
    (pc = "done" /\ Len(dom) >= 1 /\ Len(dom[1].attributes) > 1)
        => /\ IsArr(out)
           /\ \A k \in DataAttrs(dom[1]) :
                 dom[1].attributes[k].name \notin Vocabulary
                    => Get(out.a[1].o, Tail(dom[1].attributes[k].name))
                          = Str(dom[1].attributes[k].value)
           /\ DOMAIN out.a[1].o \subseteq
                 {K("type"), K("content"), K("children")}
                   \cup {IF dom[1].attributes[k].name \in Vocabulary
                         THEN DocumentedPath(dom[1].attributes[k].name)[1]
                         ELSE Tail(dom[1].attributes[k].name) : k \in DataAttrs(dom[1])}

(***************************************************************************)
(* Reference notions on the paragraphs.                                    *)
(***************************************************************************)
\* The places where the marker <br> starts in a string.
Breaks(s) == {i \in 1..Len(s) : HasAt(s, i, <<"<", "b", "r", ">">>)}

\* The parts of a string between its markers, in order: before the first
\* marker, between two markers that follow each other, after the last.
Parts(s) ==
    LET cuts  == Breaks(s) \cup {Len(s) + 1}
        Nth(n) == CHOOSE i \in cuts : Cardinality({j \in cuts : j < i}) = n - 1
    IN  [n \in 1..Cardinality(cuts) |->
            Str(Slice(s, IF n = 1 THEN 1 ELSE Nth(n - 1) + 4, Nth(n) - 1))]

\* The entry of a list of paragraphs is dropped: null or the empty string.
Dropped(p) == p = Null \/ p = Str(<<>>)

\* The paragraphs, without the dropped entries, each replaced by its parts.
RECURSIVE Normalised(_)
Normalised(ps) ==
    IF ps = <<>> THEN <<>>
    ELSE (IF Dropped(Head(ps)) THEN <<>> ELSE Parts(Head(ps).s))
         \o Normalised(Tail(ps))

(***************************************************************************)
(* C10.  parseBlockContent returns as paragraphs the paragraphs of the     *)
(* body of the block without the falsy entries, each remaining paragraph   *)
(* replaced by its parts between the markers <br>, in the original order;  *)
(* ["a<br>b", ""] gives ["a", "b"].                                        *)
(***************************************************************************)
C10_ParagraphsSplit ==
    [][(calls' = calls + 1 /\ Truthy(BodyField(block, "paragraphs")))
          => parsed'.paragraphs = Arr(Normalised(block.main.body.paragraphs.a))]_vars

C10_Witness ==
    /\ calls = 1
    /\ block.main # Undefined
    /\ block.main.body.paragraphs = Arr(<<Str(<<"a", "<", "b", "r", ">", "b">>), Str(<<>>)>>)
    /\ parsed.paragraphs = Arr(<<Str(<<"a">>), Str(<<"b">>)>>)

(***************************************************************************)
(* C11.  For every value that is not a string (numbers, booleans, objects, *)
(* arrays, null, undefined) parseStyledString does not fail: it writes one *)
(* warning and returns the runs of the string representation of the value. *)
(***************************************************************************)
\* The string representation of a value.
Representation(value) ==
    IF value = Null THEN Str(<<"n", "u", "l", "l">>)
    ELSE IF value = Undefined THEN Str(<<"u", "n", "d", "e", "f", "i", "n", "e", "d">>)
    ELSE toString(value)

C11_NonStringCoerced ==
    (pc # "styled" /\ ~IsStr(arg))
        => /\ pc = "done"
           /\ console = <<warning(arg)>>
           /\ runs = parseStyledString(Representation(arg)).a

(***************************************************************************)
(* C12.  A call of parseBlockContent leaves what the block holds as it     *)
(* was: block.main, with body.paragraphs, body.imgs and the paragraphs of  *)
(* the entries of body.lists, has the same value after the call as before. *)
(***************************************************************************)
C12_BlockUnchanged ==
    [][calls' = calls + 1 => block'.main = block.main]_vars

(***************************************************************************)
(* C13.  A text node whose value is white space only gives no node; any    *)
(* other text node gives a Text node whose content is the value without    *)
(* its leading and trailing white space.                                   *)
(***************************************************************************)
\* The text between the first and the last character that is not a space.
Stripped(s) ==
    LET inked == {k \in 1..Len(s) : s[k] # " "}
    IN  IF inked = {} THEN <<>>
        ELSE SubSeq(s, Least(inked), CHOOSE k \in inked : \A j \in inked : j <= k)

C13_TextTrimmed ==
    (pc = "done" /\ dom # <<>> /\ dom[1].nodeType = "text")
        => IF Stripped(dom[1].nodeValue) = <<>>
           THEN out = htmlToDocx(Tail(dom))
           ELSE /\ IsArr(out)
                /\ Len(out.a) >= 1
                /\ out.a[1] = Obj((K("type") :> Str(<<"text">>))
                                  @@ (K("content") :> Str(Stripped(dom[1].nodeValue))))

(***************************************************************************)
(* C14.  The type of an element is the value of its data-type attribute    *)
(* when it has one, and its tag name in lower case otherwise; an element   *)
(* named contentWrapper or emptyLine by its tag is treated as the one      *)
(* named so by data-type.                                                  *)
(***************************************************************************)
HasDataType(node) ==
    \E k \in 1..Len(node.attributes) : node.attributes[k].name = <<"data", "type">>

\* The type of an element as documented.
DocumentedType(node) ==
    IF HasDataType(node)
    THEN node.attributes[CHOOSE k \in 1..Len(node.attributes) :
                            node.attributes[k].name = <<"data", "type">>].value
    ELSE CASE node.tagName = <<"CONTENTWRAPPER">> -> <<"contentWrapper">>
           [] node.tagName = <<"EMPTYLINE">>      -> <<"emptyLine">>
           [] node.tagName = <<"P">>              -> <<"p">>
           [] node.tagName = <<"DIV">>            -> <<"div">>
           [] node.tagName = <<"SPAN">>           -> <<"span">>

\* The document in which every element without data-type names its
\* documented type by data-type.
Typed(d) ==
    [k \in 1..Len(d) |->
        IF d[k].nodeType = "element" /\ ~HasDataType(d[k])
        THEN [d[k] EXCEPT !.attributes =
                 <<Attr(<<"data", "type">>, DocumentedType(d[k]))>> \o @]
        ELSE d[k]]

C14_TypeFromAttributeOrTag ==
    pc = "done"
        => /\ out = htmlToDocx(Typed(dom))
           /\ (/\ dom # <<>>
               /\ dom[1].nodeType = "element"
               /\ DocumentedType(dom[1]) \notin {<<"contentWrapper">>, <<"emptyLine">>})
                 => /\ IsArr(out)
                    /\ Len(out.a) >= 1
                    /\ IsObj(out.a[1])
                    /\ Get(out.a[1].o, K("type")) = Str(DocumentedType(dom[1]))

(***************************************************************************)
(* C15.  An element of type text gives a node with a content string and no *)
(* children field; the content is the text of the text nodes below the     *)
(* element, in document order, whether they are its children, held by its  *)
(* child elements or brought in by contentWrappers (the text nodes of      *)
(* white space only and the ones below an emptyLine give no text).         *)
(***************************************************************************)
\* The text below node i, in document order.
TextBelow(d, i) ==
    LET Pruned(j) == IsElementOfType(d, j, <<"emptyLine">>)
        Texts[k \in i..SubtreeEnd(d, i)] ==
            (IF k = i THEN <<>> ELSE Texts[k - 1])
            \o (IF /\ d[k].nodeType = "text"
                   /\ Stripped(d[k].nodeValue) # <<>>
                   /\ ~InSubtreeOf(d, k, Pruned)
                THEN d[k].nodeValue ELSE <<>>)
    IN  Texts[SubtreeEnd(d, i)]

C15_TextContentJoined ==
    (pc = "done" /\ dom # <<>> /\ IsElementOfType(dom, 1, <<"text">>))
        => /\ IsArr(out)
           /\ Len(out.a) >= 1
           /\ out.a[1] = Obj((K("type") :> Str(<<"text">>))
                             @@ (K("content") :> Str(TextBelow(dom, 1))))

(***************************************************************************)
(* C16.  A call of parseBlockContent returns images that end with the      *)
(* banner of the block and hold it exactly once; every returned item has   *)
(* no banner, and the images of an item that had a banner end with that    *)
(* banner and hold it exactly once.                                        *)
(***************************************************************************)
\* The number of places of a sequence that hold v.
Count(seq, v) == Cardinality({k \in 1..Len(seq) : seq[k] = v})

EndsWithOnce(seq, v) == seq # <<>> /\ seq[Len(seq)] = v /\ Count(seq, v) = 1

C16_BannersAppended ==
    [][calls' = calls + 1
          => /\ Truthy(MainField(block, "banner"))
                  => EndsWithOnce(parsed'.images.a, block.main.banner)
             /\ Len(parsed'.items.a) = Len(block.items)
             /\ \A k \in 1..Len(block.items) :
                   /\ parsed'.items.a[k].banner = Undefined
                   /\ Truthy(block.items[k].banner)
                         => EndsWithOnce(parsed'.items.a[k].images.a,
                                         block.items[k].banner)]_vars

(***************************************************************************)
(* C17.  After a call of parseBlockContent no paragraph holds the marker   *)
(* <br> and no paragraph is falsy, at the four levels: the paragraphs of   *)
(* the block, of every item, of every entry of the lists of the block and  *)
(* of every entry of the lists of every item.                              *)
(***************************************************************************)
\* The paragraphs after are the paragraphs before without the falsy
\* entries, split at the markers, and none of them holds <br>.
Clean(before, after) ==
    /\ after = Normalised(before)
    /\ \A k \in 1..Len(after) : ~includes(after[k].s, <<"<", "b", "r", ">">>)

CleanLists(before, after) ==
    /\ Len(after) = Len(before)
    /\ \A l \in 1..Len(before) :
          /\ Len(after[l].a) = Len(before[l].a)
          /\ \A e \in 1..Len(before[l].a) :
                Clean(before[l].a[e].paragraphs.a, after[l].a[e].paragraphs.a)

C17_AllLevelsSplit ==
    [][calls' = calls + 1
          => /\ Clean(orEmpty(BodyField(block, "paragraphs")), parsed'.paragraphs.a)
             /\ CleanLists(orEmpty(BodyField(block, "lists")), parsed'.lists.a)
             /\ \A k \in 1..Len(block.items) :
                   /\ Clean(block.items[k].paragraphs.a, parsed'.items.a[k].paragraphs.a)
                   /\ Truthy(block.items[k].lists)
                         => CleanLists(block.items[k].lists.a,
                                       parsed'.items.a[k].lists.a)]_vars

(***************************************************************************)
(* C18.  Every entry of the sequence htmlToDocx returns, and of every      *)
(* children field in it, is one node and never a sequence, also when a     *)
(* contentWrapper is the direct child of a contentWrapper.                 *)
(***************************************************************************)
\* Every entry of the sequence is an object whose children, if any, are so.
RECURSIVE NodesOnly(_)
NodesOnly(v) ==
    /\ IsArr(v)
    /\ \A k \in 1..Len(v.a) :
          /\ IsObj(v.a[k])
          /\ K("children") \in DOMAIN v.a[k].o => NodesOnly(v.a[k].o[K("children")])

C18_NoBareSequence ==
    pc = "done" => NodesOnly(out)

(***************************************************************************)
(* C19.  In a string in which one <u-org> pair around plain text covers a  *)
(* part only, the tags outside the pair are still read as styling: the     *)
(* characters of the runs that carry a style are the characters inside the *)
(* matched pairs before the <u-org> and after the </u-org>, with the       *)
(* styles of these pairs.                                                  *)
(***************************************************************************)
\* The one <u-org> of the string is at i, the one </u-org> at k, with plain
\* text between them and something before or after them.
PartAt(toks, i, k) ==
    /\ i < k
    /\ toks[i] = "<u-org>"
    /\ toks[k] = "</u-org>"
    /\ \A j \in 1..Len(toks) : j \notin {i, k} => toks[j] \notin {"<u-org>", "</u-org>"}
    /\ \A j \in (i + 1)..(k - 1) : toks[j] \in PlainTokens
    /\ i > 1 \/ k < Len(toks)

PartlyWrapped(toks) ==
    \E i \in 1..Len(toks) : \E k \in 1..Len(toks) : PartAt(toks, i, k)

\* The characters that carry a style, in order.
StyledOnly(chars) == SelectSeq(chars, LAMBDA c : c.styles # {})

\* The styled characters of the text before and after the <u-org> pair.
StyledOutside(toks) ==
    LET i == CHOOSE i \in 1..Len(toks) : \E k \in 1..Len(toks) : PartAt(toks, i, k)
        k == CHOOSE k \in 1..Len(toks) : PartAt(toks, i, k)
    IN  StyledOnly(PairStyles(SubSeq(toks, 1, i - 1), {}))
        \o StyledOnly(PairStyles(SubSeq(toks, k + 1, Len(toks)), {}))

C19_PartialUOrgKeepsStyles ==
    (pc = "done" /\ PartlyWrapped(input))
        => StyledOnly(CharStyles(runs)) = StyledOutside(input)

(***************************************************************************)
(* C20.  parseStyledString never returns an empty sequence, and every      *)
(* empty segment gives exactly one run with empty content and the styles   *)
(* in force: the runs with empty content are, in order, the ones of the    *)
(* matched pairs with nothing inside (and the one of the empty string);    *)
(* "<b></b>" yields the single run with content "" and bold.               *)
(***************************************************************************)
\* The styles of the runs of the empty segments of a string: a segment is
\* the whole string or the inside of a matched pair.
RECURSIVE SegmentEmpties(_, _), RestEmpties(_, _)
SegmentEmpties(toks, styles) ==
    IF toks = <<>> THEN <<styles>> ELSE RestEmpties(toks, styles)

RestEmpties(toks, styles) ==
    IF toks = <<>> THEN <<>>
    ELSE LET closers == {k \in 2..Len(toks) :
                            /\ Head(toks) \in OpenTokens
                            /\ toks[k] \in CloseTokens
                            /\ OpenOf(toks[k]) = Head(toks)}
         IN  IF closers = {} THEN RestEmpties(Tail(toks), styles)
             ELSE SegmentEmpties(SubSeq(toks, 2, Least(closers) - 1),
                                 styles \cup StyleOf(Head(toks)))
                  \o RestEmpties(SubSeq(toks, Least(closers) + 1, Len(toks)), styles)

\* The styles of the runs with empty content, in order.
EmptyRuns(rs) ==
    LET empties == SelectSeq(rs, LAMBDA r : r.content = <<>>)
    IN  [k \in 1..Len(empties) |-> empties[k].styles]

C20_EmptySegmentOneRun ==
    pc = "done"
        => /\ runs # <<>>
           /\ ~HasUOrgPair(input) => EmptyRuns(runs) = SegmentEmpties(input, {})
           /\ input = <<"<b>", "</b>">> => runs = <<Run(<<>>, {"bold"})>>

C20_Witness ==
    /\ pc = "done"
    /\ input = <<"<i>", "<b>", "</b>", "</i>">>
    /\ runs = <<Run(<<>>, {"bold", "italics"})>>

(***************************************************************************)
(* C21.  A matched pair of a tag that is none of strong, b, em, i, u is a  *)
(* wrapper without effect: its tags are in no run and the characters       *)
(* inside it carry the styles of the pairs around it, nothing added or     *)
(* removed.  In a string of properly nested pairs that holds such a pair,  *)
(* no tag is in the content of a run and every character has the styles    *)
(* it has in the string without the tags of these pairs.                   *)
(* "<u><span>x</span></u>" yields the single run x with underline.         *)
(***************************************************************************)
NoOpTokens == {"<span>", "</span>"}

\* The string without the tags that stand for no style.
Erased(toks) == SelectSeq(toks, LAMBDA t : t \notin NoOpTokens)

HasNoOpPair(toks) == \E k \in 1..Len(toks) : toks[k] = "<span>"

C21_UnknownPairNoOp ==
    (pc = "done" /\ HasNoOpPair(input))
        => /\ CharStyles(runs) = PairStyles(input, {})
           /\ WellNested(input)
                => /\ ConcatContent(runs) = PlainText(input)
                   /\ CharStyles(runs)
                        = CharStyles(parseStyledString(Str(Flatten(Erased(input)))).a)
           /\ input = <<"<u>", "<span>", "x", "</span>", "</u>">>
                => runs = <<Run(<<"x">>, {"underline"})>>

C21_Witness ==
    /\ pc = "done"
    /\ input = <<"<u>", "<span>", "x", "</span>", "</u>">>
    /\ runs = <<Run(<<"x">>, {"underline"})>>

(***************************************************************************)
(* C22.  A later call of parseBlockContent on the same block returns what  *)
(* the call before it returned; the images have the same length and hold   *)
(* the banner of the block exactly once.                                   *)
(***************************************************************************)
C22_RepeatableResult ==
    [][(calls >= 1 /\ calls' = calls + 1)
          => /\ parsed' = parsed
             /\ Len(parsed'.images.a) = Len(parsed.images.a)
             /\ Truthy(MainField(block, "banner"))
                   => Count(parsed'.images.a, block.main.banner) = 1]_vars

(***************************************************************************)
(* C23.  The paragraphs parseBlockContent returns for the block and for    *)
(* every item hold no empty string, whatever the paragraphs given (a       *)
(* paragraph may start or end with <br>, or hold two <br> in a row).       *)
(***************************************************************************)
NoEmptyString(ps) == \A k \in 1..Len(ps) : ps[k] # Str(<<>>)

C23_NoEmptyParagraph ==
    [][calls' = calls + 1
          => /\ NoEmptyString(parsed'.paragraphs.a)
             /\ \A k \in 1..Len(parsed'.items.a) :
                   NoEmptyString(parsed'.items.a[k].paragraphs.a)]_vars

(***************************************************************************)
(* C24.  The output of htmlToDocx for an element with distinctly named     *)
(* data-* attributes is never the TypeError, and it is the output for the  *)
(* same element with the attributes listed in the reverse order.           *)
(***************************************************************************)
Reversed(s) == [k \in 1..Len(s) |-> s[Len(s) + 1 - k]]

C24_OrderIndependent ==
    (pc = "done" /\ Len(dom) >= 1 /\ Cardinality(DataAttrs(dom[1])) >= 2)
        => /\ ~IsError(out)
           /\ out = htmlToDocx([dom EXCEPT ![1].attributes = Reversed(@)])

(***************************************************************************)
(* C25.  In the object htmlToDocx returns for an element, type is the      *)
(* resolved type of the element, content is present only on a text element *)
(* and is the text below it, and children is present only when a child     *)
(* survives and is then an array of the objects of the children, whatever  *)
(* the data-* attributes of the element.                                   *)
(***************************************************************************)
C25_StructureFromTree ==
    (pc = "done" /\ Len(dom) >= 1 /\ IsArr(out) /\ Len(out.a) = 1)
        => LET obj      == out.a[1].o
               children == spreadChildren(dom, childNodes(dom, 1), <<>>)
           IN  /\ Get(obj, K("type")) = Str(typeOf(dom[1]))
               /\ K("children") \in DOMAIN obj
                    => /\ typeOf(dom[1]) # <<"text">>
                       /\ IsArr(children) /\ children.a # <<>>
                       /\ obj[K("children")] = children
               /\ K("content") \in DOMAIN obj
                    => /\ typeOf(dom[1]) = <<"text">>
                       /\ IsStr(obj[K("content")])

(***************************************************************************)
(* components/Paragraph.js: findSecondLeadingText.                         *)
(***************************************************************************)
\* [a-z] under the i flag.
Letters == WordChars \ {"0", "1", "2", "3", "4", "5", "6", "7", "8", "9", "_"}

\* "<\/?[a-z][^>]*>" at position i: the position of the ">" that closes
\* the tag, or 0 when there is no tag at i.
TagEnd(s, i) ==
    IF i <= Len(s) /\ s[i] = "<"
    THEN LET j == IF i + 1 <= Len(s) /\ s[i + 1] = "/" THEN i + 2 ELSE i + 1
         IN  IF j <= Len(s) /\ s[j] \in Letters
                   /\ \E k \in (j + 1)..Len(s) : s[k] = ">"
             THEN Least({k \in (j + 1)..Len(s) : s[k] = ">"})
             ELSE 0
    ELSE 0

\* "[^<>]+" at position i: the position after the run of characters other
\* than "<" and ">" that starts at i.
TextEnd(s, i) ==
    Least({j \in i..(Len(s) + 1) : j = Len(s) + 1 \/ s[j] \in {"<", ">"}})

\* htmlString.match(regex) || [] from position i on: the tags and the runs
\* of text, in the order of the string.
RECURSIVE matchParts(_, _)
matchParts(s, i) ==
    IF i > Len(s) THEN <<>>
    ELSE IF TagEnd(s, i) # 0
         THEN <<Slice(s, i, TagEnd(s, i))>> \o matchParts(s, TagEnd(s, i) + 1)
    ELSE IF s[i] \notin {"<", ">"}
         THEN <<Slice(s, i, TextEnd(s, i) - 1)>> \o matchParts(s, TextEnd(s, i))
    ELSE matchParts(s, i + 1)

\* part.startsWith('<') && part.endsWith('>') ? '' : part
strippedPart(part) ==
    IF part # <<>> /\ part[1] = "<" /\ part[Len(part)] = ">" THEN <<>> ELSE part

\* list[1]?.paragraphs?.[0] || '': reading [1] of a list that is undefined
\* throws.
secondHtmlString(list) ==
    IF ~IsArr(list) THEN TypeError
    ELSE IF Len(list.a) < 2 \/ ~IsObj(list.a[2]) THEN Str(<<>>)
    ELSE LET paragraphs == Get(list.a[2].o, K("paragraphs"))
         IN  IF ~IsArr(paragraphs) \/ paragraphs.a = <<>> THEN Str(<<>>)
             ELSE IF Truthy(paragraphs.a[1]) THEN paragraphs.a[1] ELSE Str(<<>>)

findSecondLeadingText(list) ==
    LET htmlString == secondHtmlString(list)
    IN  IF IsError(htmlString) THEN htmlString
        ELSE LET parts         == matchParts(htmlString.s, 1)
                 strippedParts == [k \in 1..Len(parts) |-> strippedPart(parts[k])]
                 filteredParts == SelectSeq(strippedParts, LAMBDA part : part # <<>>)
             IN  IF filteredParts # <<>> THEN Str(filteredParts[1]) ELSE Str(<<>>)

(***************************************************************************)
(* components/Paragraph.js: Paragraph.  An element is a record of its      *)
(* data-type, its data-style and its children.                             *)
(***************************************************************************)
ColumnModes ==
    {"twoColumnLayoutWide", "twoColumnLayout", "twoColumnLayoutJustified",
     "twoLevelIndentation"}

\* The data-positionaltab attributes of the first run of a second column.
positionalTab(alignment, relativeto) ==
    {<<"data-positionaltab-alignment", alignment>>,
     <<"data-positionaltab-relativeto", relativeto>>,
     <<"data-positionaltab-leader", "none">>}

createTextRun(text, extraDataAttributes) ==
    [type |-> "TextRun", content |-> text.content, styles |-> text.styles,
     extra |-> extraDataAttributes]

contentWrapper(children) == [type |-> "contentWrapper", children |-> children]

paragraphElement(style, children) ==
    [type |-> "paragraph", style |-> style, children |-> children]

\* parsed.findIndex((text) => text.content === target)
findIndex(theParsed, target) ==
    IF \E k \in 1..Len(theParsed) : theParsed[k].content = target
    THEN Least({k \in 1..Len(theParsed) : theParsed[k].content = target}) - 1
    ELSE -1

\* parsed.indexOf(text) for the text at position k of the forEach, as the
\* search by value finds it.
indexOfEqual(theParsed, k) == Least({j \in 1..Len(theParsed) : theParsed[j] = theParsed[k]}) - 1

\* parsed.indexOf(text) for the text at position k of the forEach: indexOf
\* compares objects by identity and every run is an object of its own.
indexOf(theParsed, k) == k - 1

\* The runs a column maps, the first run of a second column with the tab.
columnRuns(texts, tab) ==
    [index \in 1..Len(texts) |->
        createTextRun(texts[index], IF index = 1 THEN tab ELSE {})]

twoColumns(mode, theParsed, target) ==
    LET targetIndex  == findIndex(theParsed, target)
        positions    == [k \in 1..Len(theParsed) |-> k]
        firstColumn  == SelectSeq(positions, LAMBDA k : indexOf(theParsed, k) < targetIndex)
        secondColumn == SelectSeq(positions, LAMBDA k : ~(indexOf(theParsed, k) < targetIndex))
        tab          == IF mode = "twoColumnLayoutJustified"
                        THEN positionalTab("right", "margin")
                        ELSE positionalTab("left", "indent")
    IN  paragraphElement(mode,
            <<contentWrapper(columnRuns([k \in 1..Len(firstColumn) |-> theParsed[firstColumn[k]]], {})),
              contentWrapper(columnRuns([k \in 1..Len(secondColumn) |-> theParsed[secondColumn[k]]], tab))>>)

reversedList(numberingNumber, theParsed) ==
    paragraphElement("reversedList",
        <<contentWrapper(<<createTextRun(
              [content |-> toString(numberingNumber).s \o <<".">>, styles |-> {}], {})>>),
          contentWrapper(columnRuns(theParsed, positionalTab("left", "indent")))>>)

\* Paragraph({ data, format }), no children given.  format is undefined or
\* the record of mode, list and numberingNumber.
Paragraph(props) ==
    IF ~Truthy(props.data) THEN paragraphElement("", <<>>)
    ELSE LET theParsed == parseStyledString(props.data)
             format == props.format
         IN  IF IsError(theParsed) THEN theParsed
             ELSE IF format # Undefined /\ format.mode \in ColumnModes
             THEN LET target == findSecondLeadingText(format.list)
                  IN  IF IsError(target) THEN target
                      ELSE twoColumns(format.mode, theParsed.a, target.s)
             ELSE IF format # Undefined /\ format.mode = "ordered-list-reversed"
                        /\ Truthy(format.numberingNumber)
             THEN reversedList(format.numberingNumber, theParsed.a)
             ELSE paragraphElement("", columnRuns(theParsed.a, {}))

(***************************************************************************)
(* The paragraphs rendered: the data is a string of pieces, the list has   *)
(* one or two items and the first paragraph of the second item is a string *)
(* of pieces.                                                              *)
(***************************************************************************)
DataPieces ==
    {<<"x">>, <<"<", "b", ">", "y", "<", "/", "b", ">">>, <<"<", "b", ">">>,
     <<"<", "/", "b", ">">>}

LeadPieces == {<<"y">>, <<"<", "b", ">">>, <<"<">>}

RECURSIVE Joined(_)
Joined(pieces) ==
    IF pieces = <<>> THEN <<>> ELSE Head(pieces) \o Joined(Tail(pieces))

JoinedUpTo(S, n) == {Joined(ps) : ps \in SeqsUpTo(S, n)}

ListItem(paragraphs) == Obj(K("paragraphs") :> Arr(paragraphs))

Lists ==
    {Undefined, Arr(<<ListItem(<<>>)>>), Arr(<<ListItem(<<>>), Obj(EmptyObject)>>),
     Arr(<<ListItem(<<>>), ListItem(<<>>)>>)}
        \cup {Arr(<<ListItem(<<>>), ListItem(<<Str(h)>>)>>) :
                 h \in JoinedUpTo(LeadPieces, MaxLeadPieces)}

Formats ==
    {Undefined}
        \cup {[mode |-> m, list |-> l, numberingNumber |-> Undefined] :
                 m \in ColumnModes, l \in Lists}
        \cup {[mode |-> "ordered-list-reversed", list |-> Undefined,
               numberingNumber |-> n] : n \in {Num(0), Num(1)}}

InitParagraph ==
    /\ pc = "render"
    /\ \E d \in JoinedUpTo(DataPieces, MaxDataPieces), f \in Formats :
          arg = [data |-> Str(d), format |-> f]
    /\ input = <<>>
    /\ runs = <<>>
    /\ dom = <<>>
    /\ out = Null
    /\ block = Undefined
    /\ parsed = Undefined
    /\ calls = 0
    /\ console = <<>>

RenderParagraph ==
    /\ pc = "render"
    /\ out' = Paragraph(arg)
    /\ pc' = IF IsError(Paragraph(arg)) THEN "threw" ELSE "done"
    /\ UNCHANGED <<input, arg, console, runs, dom, block, parsed, calls>>

NextParagraph == RenderParagraph

SpecParagraph == InitParagraph /\ [][NextParagraph]_vars

(***************************************************************************)
(* C26.  In the modes with two columns, the runs of the first column       *)
(* followed by the runs of the second column are the runs of               *)
(* parseStyledString(data); the second column starts at the first run      *)
(* whose content is the leading text of the second item of the list, and   *)
(* holds every run when no run has that content.                           *)
(***************************************************************************)
\* The runs a column shows.
ColumnTexts(wrapper) ==
    [k \in 1..Len(wrapper.children) |->
        Run(wrapper.children[k].content, wrapper.children[k].styles)]

\* The number of runs before the first one with the content, all of them
\* counted as after it when no run has the content.
RunsBefore(rs, content) ==
    IF \E k \in 1..Len(rs) : rs[k].content = content
    THEN Least({k \in 1..Len(rs) : rs[k].content = content}) - 1
    ELSE 0

TwoColumnsRendered ==
    /\ pc = "done"
    /\ Truthy(arg.data)
    /\ arg.format # Undefined
    /\ arg.format.mode \in ColumnModes

C26_ColumnsPartitionRuns ==
    TwoColumnsRendered
        => LET rs     == parseStyledString(arg.data).a
               first  == ColumnTexts(out.children[1])
               second == ColumnTexts(out.children[2])
           IN  /\ Len(out.children) = 2
               /\ first \o second = rs
               /\ Len(first) = RunsBefore(rs, findSecondLeadingText(arg.format.list).s)

\* A run of the second column is equal to a run of the first column.
C26_Witness ==
    /\ TwoColumnsRendered
    /\ Len(out.children[1].children) >= 1
    /\ Len(out.children[2].children) >= 2
    /\ ColumnTexts(out.children[1])[1] = ColumnTexts(out.children[2])[2]

(***************************************************************************)
(* components/Image.js and the Image component of the module that reads    *)
(* uniweb.activeWebsite.                                                   *)
(***************************************************************************)
UpperCase == <<"A", "B", "C", "D", "E", "F", "G", "H", "I", "J", "K", "L", "M",
               "N", "O", "P", "Q", "R", "S", "T", "U", "V", "W", "X", "Y", "Z">>

LowerCase == <<"a", "b", "c", "d", "e", "f", "g", "h", "i", "j", "k", "l", "m",
               "n", "o", "p", "q", "r", "s", "t", "u", "v", "w", "x", "y", "z">>

\* string.toLowerCase()
srcLowerCase(s) ==
    [k \in 1..Len(s) |->
        IF \E n \in 1..26 : UpperCase[n] = s[k]
        THEN LowerCase[CHOOSE n \in 1..26 : UpperCase[n] = s[k]]
        ELSE s[k]]

\* array.pop()
pop(array) == array[Len(array)]

SupportedFormats ==
    {<<"j", "p", "e", "g">>, <<"j", "p", "g">>, <<"b", "m", "p">>, <<"g", "i", "f">>,
     <<"p", "n", "g">>}

\* ['jpeg', ...].includes(src.split('.').pop().toLowerCase()) ? ... : null
imageFormat(src) ==
    IF srcLowerCase(pop(split(src, <<".">>)).s) \in SupportedFormats
    THEN Str(srcLowerCase(pop(split(src, <<".">>)).s))
    ELSE Null

\* <Paragraph><TextRun>{alt}</TextRun></Paragraph>
altParagraph(alt) ==
    [type |-> "paragraph", children |-> <<[type |-> "TextRun", content |-> alt]>>]

\* <Paragraph data-spacing-after='50'><img ... data-type='image' /></Paragraph>
imageParagraph(src, alt) ==
    [type |-> "paragraph",
     children |-> <<[type |-> "image", src |-> src, alt |-> alt, dataSrc |-> src,
                     transformation |-> <<"400", "300">>]>>]

\* website?.activePage?.getPageProfile() || null, also
\* website?.activePage ? website.activePage.getPageProfile() : null: the
\* website is undefined or the record of its activePage, which is undefined
\* or the record of the profile it returns.
getPageProfile(website) ==
    IF website = Undefined THEN Null
    ELSE IF website.activePage = Undefined THEN Null
    ELSE website.activePage.profile

\* The rest of both components from the source on: the element and the
\* warnings.
renderSource(src, alt) ==
    IF ~Truthy(imageFormat(src))
    THEN [element |-> altParagraph(alt),
          warned  |-> <<[warn |-> "Unsupported image format:", src |-> src]>>]
    ELSE [element |-> imageParagraph(src, alt), warned |-> <<>>]

noProfile(alt) ==
    [element |-> altParagraph(alt),
     warned  |-> <<[warn |-> "No active page profile found."]>>]

\* components/Image.js: Image({ data, website }).
Image(props) ==
    LET url == props.data.url
        alt == props.data.alt
    IN  IF Truthy(url) THEN renderSource(url.s, alt)
        ELSE LET pageProfile == getPageProfile(props.website)
             IN  IF pageProfile = Null THEN noProfile(alt)
                 ELSE renderSource(pageProfile.src, alt)

\* The Image({ data }) of the module with const website =
\* uniweb.activeWebsite.
ProfileImage(props, website) ==
    LET url     == props.data.url
        alt     == props.data.alt
        profile == getPageProfile(website)
    IN  IF profile = Null THEN noProfile(alt)
        ELSE IF Truthy(url) THEN renderSource(url.s, alt)
        ELSE renderSource(profile.src, alt)

(***************************************************************************)
(* The images rendered: the url is undefined or a string of pieces, and    *)
(* the profile of the active page, when there is one, gives the source of  *)
(* the asset.                                                              *)
(***************************************************************************)
SourcePieces ==
    {<<"a">>, <<".">>, <<"p", "n", "g">>, <<"J", "p", "G">>, <<"t", "x", "t">>}

Websites ==
    {Undefined, [activePage |-> Undefined], [activePage |-> [profile |-> Null]]}
        \cup {[activePage |-> [profile |-> [src |-> s]]] :
                 s \in JoinedUpTo(SourcePieces, MaxAssetPieces)}

InitImage ==
    /\ pc = "render"
    /\ \E u \in {Undefined} \cup {Str(s) : s \in JoinedUpTo(SourcePieces, MaxSourcePieces)},
          w \in Websites :
          arg = [data |-> [value |-> <<"v">>, url |-> u, alt |-> <<"A">>], website |-> w]
    /\ input = <<>>
    /\ runs = <<>>
    /\ dom = <<>>
    /\ out = Null
    /\ block = Undefined
    /\ parsed = Undefined
    /\ calls = 0
    /\ console = <<>>

\* components/Image.js, given the website as a prop.
RenderImage ==
    /\ pc = "render"
    /\ out' = Image(arg).element
    /\ console' = console \o Image(arg).warned
    /\ pc' = "done"
    /\ UNCHANGED <<input, arg, runs, dom, block, parsed, calls>>

\* The component of the other module, with the same website as
\* uniweb.activeWebsite.
RenderProfileImage ==
    /\ pc = "render"
    /\ out' = ProfileImage(arg, arg.website).element
    /\ console' = console \o ProfileImage(arg, arg.website).warned
    /\ pc' = "done"
    /\ UNCHANGED <<input, arg, runs, dom, block, parsed, calls>>

NextImage == RenderImage \/ RenderProfileImage

SpecImage == InitImage /\ [][NextImage]_vars

(***************************************************************************)
(* C27.  A rendered image holds an img element only when the text of the   *)
(* resolved source after its last dot is, in lower case, jpeg, jpg, bmp,   *)
(* gif or png; it is the paragraph of the alt text alone when the          *)
(* extension is another one or when the asset has to be resolved and there *)
(* is no profile; and a url with a supported extension gives the img       *)
(* element whether there is a profile or not.                              *)
(***************************************************************************)
\* The text after the last dot of a string, the string when it has no dot.
Extension(s) ==
    IF \E k \in 1..Len(s) : s[k] = "."
    THEN LET last == CHOOSE k \in 1..Len(s) :
                        s[k] = "." /\ \A j \in (k + 1)..Len(s) : s[j] # "."
         IN  SubSeq(s, last + 1, Len(s))
    ELSE s

\* Two strings are the same up to the case of their letters.
SameIgnoringCase(s, t) ==
    /\ Len(s) = Len(t)
    /\ \A k \in 1..Len(s) :
          \/ s[k] = t[k]
          \/ \E n \in 1..26 : {s[k], t[k]} = {UpperCase[n], LowerCase[n]}

SupportedExtension(s) ==
    \E f \in SupportedFormats : SameIgnoringCase(Extension(s), f)

HasProfile == getPageProfile(arg.website) # Null

HasImg == \E k \in 1..Len(out.children) : out.children[k].type = "image"

C27_ImgOnlyWhenSupported ==
    pc = "done"
        => /\ HasImg
              => \/ Truthy(arg.data.url) /\ SupportedExtension(arg.data.url.s)
                 \/ ~Truthy(arg.data.url) /\ HasProfile
                      /\ SupportedExtension(getPageProfile(arg.website).src)
           /\ (~Truthy(arg.data.url) /\ ~HasProfile) => out = altParagraph(arg.data.alt)
           /\ (Truthy(arg.data.url) /\ ~SupportedExtension(arg.data.url.s))
                 => out = altParagraph(arg.data.alt)
           /\ (~Truthy(arg.data.url) /\ HasProfile
                  /\ ~SupportedExtension(getPageProfile(arg.website).src))
                 => out = altParagraph(arg.data.alt)
           /\ (Truthy(arg.data.url) /\ SupportedExtension(arg.data.url.s))
                 => out = imageParagraph(arg.data.url.s, arg.data.alt)

====
